---- MODULE Spec2Model ----
(***************************************************************************)
(* The change-triggered, fingerprint-cached valuation pipeline of          *)
(* flows/advanced_pipeline.py: the input fingerprinter (fingerprint_inputs,*)
(* was_data_changed), the quality gate, the valuation task with its cache, *)
(* persistence and backup, and the flow advanced_data_pipeline that        *)
(* sequences them.                                                         *)
(***************************************************************************)
EXTENDS Integers, Sequences, FiniteSets, TLC

(***************************************************************************)
(* Bounds of the model.                                                    *)
(***************************************************************************)
MaxContents == 2    \* distinct small file contents used when the tasks are called directly
MaxFpWrites == 1    \* rewrites of input files between direct fingerprint_inputs calls
MaxFps == 3         \* distinct fingerprints supplied to direct was_data_changed calls
MaxRuns == 2        \* flow runs started
MaxWrites == 1      \* rewrites of input files by an outside writer around flow runs
MaxTime == 12       \* hours the clock may reach
MaxCallers == 2     \* concurrent callers of was_data_changed
MaxTxRows == 2      \* rows of a transaction frame passed to the valuation directly
MaxMktRows == 2     \* rows of a market frame passed to the valuation directly
MaxTaskCalls == 3   \* direct invocations of the valuation task
MaxClock == 15      \* hours the clock may reach between those invocations
MaxAccountOps == 4   \* calls made on one account
MantissaBits == 3    \* significand bits kept by a float of the account and portfolio models (53 in a double)
MaxPortfolioOps == 3 \* calls made on one portfolio
TickHours == 3      \* hours between two looks at the clock

(***************************************************************************)
(* Paths.  Numbers stand for the path names, in their lexicographic order: *)
(* data/raw/budget_data.json < data/raw/market_data.csv <                  *)
(* data/raw/transactions.csv, which is the order sorted(paths) uses.       *)
(***************************************************************************)
BUDGET_PATH == 1
MKT_PATH == 2
TX_PATH == 3
Paths == {BUDGET_PATH, MKT_PATH, TX_PATH}
StateKeys == {"tx+mkt", "alt"}
PORTFOLIO_OUT == "data/processed/portfolio_metrics.parquet"

(***************************************************************************)
(* Tabular data.  A file is its column set and its rows, the rows kept as  *)
(* runs of equal consecutive rows ([n, row]: n >= 1 copies of row).  A     *)
(* missing cell is NA (NaSym in the symbol column), a date that cannot be  *)
(* parsed BadDate.                                                         *)
(***************************************************************************)
NA == -1
NaSym == "NaN"
BadDate == 0
TxColumns == {"date", "amount", "symbol", "shares"}
MktColumns == {"date", "symbol", "close"}

Row(d, s, sh, a, c) == [date |-> d, symbol |-> s, shares |-> sh, amount |-> a, close |-> c]
Run(n, row) == [n |-> n, row |-> row]
File(cols, runs) == [exists |-> TRUE, columns |-> cols, runs |-> runs]
NoFile == [exists |-> FALSE, columns |-> {}, runs |-> <<>>]

RECURSIVE ExpandRuns(_)
ExpandRuns(runs) ==
    IF runs = <<>> THEN <<>>
    ELSE [i \in 1..Head(runs).n |-> Head(runs).row] \o ExpandRuns(Tail(runs))

\* The rows of a frame, one after the other.
Rows(df) == ExpandRuns(df.runs)

(***************************************************************************)
(* SHA-256 as a collision-free digest: a digest is the term made of the    *)
(* bytes it was computed from, so two digests are equal exactly when the   *)
(* hashed bytes are.  A hexdigest holds no whitespace and is never empty.  *)
(***************************************************************************)
Sha256(bytes) == <<"sha256", bytes>>
EmptyText == <<>>

\* _hash_file: the digest of the file's bytes, read chunk by chunk.
HashFile(fs, path) == Sha256(fs[path])

\* sorted(paths): insertion of each path into place, ascending.
RECURSIVE Insert(_, _)
Insert(s, p) ==
    IF s = <<>> THEN <<p>>
    ELSE IF p <= Head(s) THEN <<p>> \o s
    ELSE <<Head(s)>> \o Insert(Tail(s), p)

RECURSIVE Sorted(_)
Sorted(paths) ==
    IF paths = <<>> THEN <<>> ELSE Insert(Sorted(Tail(paths)), Head(paths))

\* What a task call yields: a value, or the exception it raised.
Returned(v) == [ok |-> TRUE, value |-> v, error |-> "none"]
Raised(e) == [ok |-> FALSE, value |-> EmptyText, error |-> e]

FingerprintUnsorted(fs, paths) ==
    IF \E i \in 1..Len(paths) : ~fs[paths[i]].exists
    THEN Raised("FileNotFoundError")
    ELSE Returned(Sha256([i \in 1..Len(paths) |-> HashFile(fs, paths[i])]))

FingerprintFirstOnly(fs, paths) ==
    LET sp == Sorted(paths) IN
    IF \E i \in 1..Len(sp) : ~fs[sp[i]].exists
    THEN Raised("FileNotFoundError")
    ELSE Returned(Sha256(<<HashFile(fs, sp[1])>>))

FingerprintWithNames(fs, paths) ==
    LET sp == Sorted(paths) IN
    IF \E i \in 1..Len(sp) : ~fs[sp[i]].exists
    THEN Raised("FileNotFoundError")
    ELSE Returned(Sha256([i \in 1..Len(sp) |-> Sha256([path |-> sp[i], file |-> fs[sp[i]]])]))

\* fingerprint_inputs: one digest per file, taken in sorted path order, and
\* the digest of their concatenation; open() raises on a missing path.
FingerprintInputs(fs, paths) ==
    LET sp == Sorted(paths) IN
    IF \E i \in 1..Len(sp) : ~fs[sp[i]].exists
    THEN Raised("FileNotFoundError")
    ELSE Returned(Sha256([i \in 1..Len(sp) |-> HashFile(fs, sp[i])]))

WasDataChangedAlways(st, fingerprint, state_key) ==
    [changed |-> TRUE, prev |-> st[state_key],
     state |-> [st EXCEPT ![state_key] = fingerprint]]

WasDataChangedNoWrite(st, fingerprint, state_key) ==
    [changed |-> st[state_key] # fingerprint, prev |-> st[state_key], state |-> st]

\* was_data_changed: st[k] is the text of the state file of key k, EmptyText
\* when there is no such file (prev = ""); read_text().strip() of a stored
\* hexdigest is that hexdigest.
WasDataChanged(st, fingerprint, state_key) ==
    LET prev == st[state_key]
        changed == (prev # fingerprint)
    IN [changed |-> changed, prev |-> prev,
        state |-> IF changed THEN [st EXCEPT ![state_key] = fingerprint] ELSE st]

(***************************************************************************)
(* The quality gate and the valuation, as functions of loaded frames.      *)
(***************************************************************************)
MIN_ROWS == 50
CACHE_TTL_HOURS == 12
LOAD_RETRIES == 2
PERSIST_RETRIES == 1

\* pd.read_csv: the frame of a file's columns and rows; cells stay as read.
ReadCsv(f) == [columns |-> f.columns, runs |-> f.runs]
NoFrame == [columns |-> {}, runs |-> <<>>]

IsNA(r, c) == IF c = "symbol" THEN r.symbol = NaSym ELSE r[c] = NA

RECURSIVE SumSeq(_)
SumSeq(s) == IF s = <<>> THEN 0 ELSE Head(s) + SumSeq(Tail(s))

\* The number of missing cells of a frame.
NaCells(df) ==
    LET rows == Rows(df)
    IN SumSeq([i \in 1..Len(rows) |-> Cardinality({c \in df.columns : IsNA(rows[i], c)})])

DataQualityCheckRowsOnly(df, min_rows) ==
    IF Len(Rows(df)) < min_rows
    THEN [ok |-> FALSE, msg |-> "Too few rows"]
    ELSE [ok |-> TRUE, msg |-> "ok"]

\* data_quality_check: df.isna().mean().mean() is the share of missing
\* cells among all cells; it exceeds 0.2 when 5 * missing > cells.
DataQualityCheck(df, min_rows) ==
    IF Len(Rows(df)) < min_rows
    THEN [ok |-> FALSE, msg |-> "Too few rows"]
    ELSE IF 5 * NaCells(df) > Len(Rows(df)) * Cardinality(df.columns)
    THEN [ok |-> FALSE, msg |-> "More than 20% NA across the frame"]
    ELSE [ok |-> TRUE, msg |-> "ok"]

RECURSIVE SortedDates(_)
SortedDates(S) ==
    IF S = {} THEN <<>>
    ELSE LET m == CHOOSE d \in S : \A e \in S : d <= e
         IN <<m>> \o SortedDates(S \ {m})

SetMax(S) == CHOOSE m \in S : \A e \in S : e <= m

\* df["symbol"] = "CASH" when the frame has no symbol column.
SymbolOf(tx, r) == IF "symbol" \in tx.columns THEN r.symbol ELSE "CASH"
\* df["shares"] = 0 when the frame has no shares column; fillna(0) otherwise.
SharesOf(tx, r) ==
    IF "shares" \in tx.columns THEN (IF r.shares = NA THEN 0 ELSE r.shares) ELSE 0

FirstClose(mrows, s, d) ==
    LET idx == {i \in 1..Len(mrows) :
                  /\ mrows[i].symbol = s /\ mrows[i].date = d /\ mrows[i].close # NA}
    IN IF s = NaSym \/ d = NA \/ idx = {} THEN NA
       ELSE mrows[CHOOSE m \in idx : \A e \in idx : m <= e].close

\* sort_values(["symbol", "date"]).groupby(...)["close"].last(): the last
\* close that is not missing among the market rows of the pair, in input
\* order (the sort is stable); rows with a missing key form no group.
LastClose(mrows, s, d) ==
    LET idx == {i \in 1..Len(mrows) :
                  /\ mrows[i].symbol = s /\ mrows[i].date = d /\ mrows[i].close # NA}
    IN IF s = NaSym \/ d = NA \/ idx = {} THEN NA ELSE mrows[SetMax(idx)].close

PositionValueSharesOnly(tx, mrows, r) == SharesOf(tx, r)

PositionValueZeroDefault(tx, mrows, r) ==
    LET c == LastClose(mrows, SymbolOf(tx, r), r.date)
    IN SharesOf(tx, r) * (IF c = NA THEN 0 ELSE c)

\* shares.fillna(0) * close.fillna(1.0) of a row of the left join.
PositionValue(tx, mrows, r) ==
    LET c == LastClose(mrows, SymbolOf(tx, r), r.date)
    IN SharesOf(tx, r) * (IF c = NA THEN 1 ELSE c)

DailyValuePerRow(tx, market) ==
    LET rows == Rows(tx)
        mrows == Rows(market)
    IN [i \in 1..Len(rows) |->
          [date |-> rows[i].date, portfolio_value |-> PositionValue(tx, mrows, rows[i])]]

\* groupby("date")["position_value"].sum().sort_values("date").
DailyValue(tx, market) ==
    LET rows == Rows(tx)
        mrows == Rows(market)
        value == [i \in 1..Len(rows) |-> PositionValue(tx, mrows, rows[i])]
        dates == SortedDates({rows[i].date : i \in 1..Len(rows)} \ {NA})
    IN [k \in 1..Len(dates) |->
          [date |-> dates[k],
           portfolio_value |->
             SumSeq([i \in 1..Len(rows) |-> IF rows[i].date = dates[k] THEN value[i] ELSE 0])]]

HasBadDate(df) == \E i \in 1..Len(df.runs) : df.runs[i].row.date = BadDate

\* pd.merge(df, last_close, on=["symbol", "date"]) refuses keys of unlike
\* types when both sides have rows.  Frames are as pd.read_csv builds them:
\* a symbol column without a single value is float64, and last_close, which
\* holds only rows with a symbol, has strings.
MergeKeysMismatch(tx, market) ==
    LET rows == Rows(tx)
        mrows == Rows(market)
    IN /\ "symbol" \in tx.columns
       /\ rows # <<>>
       /\ \A i \in 1..Len(rows) : rows[i].symbol = NaSym
       /\ \E j \in 1..Len(mrows) : mrows[j].symbol # NaSym /\ mrows[j].date # NA

ComputeValuationNonEmptyOnly(tx, market) ==
    IF tx.runs = <<>> THEN Raised("EmptyDataError")
    ELSE IF HasBadDate(tx) \/ HasBadDate(market) THEN Raised("ValueError")
    ELSE Returned(DailyValue(tx, market))

\* compute_portfolio_valuation, the task's body: the series, or the
\* exception of the first statement that fails.
ComputeValuation(tx, market) ==
    IF "date" \notin tx.columns THEN Raised("KeyError")
    ELSE IF HasBadDate(tx) THEN Raised("ValueError")
    ELSE IF "date" \notin market.columns THEN Raised("KeyError")
    ELSE IF HasBadDate(market) THEN Raised("ValueError")
    ELSE IF "shares" \notin tx.columns /\ "amount" \notin tx.columns THEN Raised("KeyError")
    ELSE IF ~({"symbol", "close"} \subseteq market.columns) THEN Raised("KeyError")
    ELSE IF MergeKeysMismatch(tx, market) THEN Raised("ValueError")
    ELSE Returned(DailyValue(tx, market))

(***************************************************************************)
(* State.                                                                  *)
(***************************************************************************)
VARIABLES
    files,      \* the input files: path -> File(..) or NoFile
    state,      \* ChangeState: state key -> stored fingerprint, EmptyText when no state file
    cache,      \* results of the valuation task: set of [key, result, expiration]
    output,     \* the file PORTFOLIO_OUT: [exists, series]
    backups,    \* number of completed backup_processed calls
    now,        \* clock, in hours
    run,        \* the flow run in progress or last finished
    nruns,      \* flow runs started
    nwrites,    \* rewrites of input files so far
    fpCalls,    \* the last two direct calls of fingerprint_inputs
    wdcCalls,   \* the last two direct calls of was_data_changed
    callers,    \* concurrent callers of was_data_changed, each at its own statement
    val,        \* a direct call of compute_portfolio_valuation: its frames and its result
    taskCalls,  \* invocations of the valuation task: how many, and the last two
    txn,        \* a Transaction, its to_dict() and what from_dict makes of that
    account,    \* an Account (or CheckingAccount, SavingsAccount) and its last call
    portfolio   \* an InvestmentPortfolio and its last call

vars == <<files, state, cache, output, backups, now, run, nruns, nwrites, fpCalls, wdcCalls,
          callers, val, taskCalls, txn, account, portfolio>>

NoOutput == [exists |-> FALSE, series |-> <<>>]

\* The two most recent calls of a task.
Push(log, e) == IF Len(log) < 2 THEN Append(log, e) ELSE <<log[2], e>>

(***************************************************************************)
(* Direct calls of the fingerprinter's two tasks.                          *)
(***************************************************************************)
\* A small file: one transaction row holding i shares.
FpContent(i) == File(TxColumns, <<Run(1, Row(1, "AAPL", i, 10, NA))>>)
FpContents == {FpContent(i) : i \in 1..MaxContents}
FpInitFiles ==
    [p \in Paths |-> IF p = MKT_PATH THEN FpContent(2) ELSE FpContent(1)]
PathTuples == {<<p>> : p \in Paths} \cup {<<p, q>> : p \in Paths, q \in Paths}

\* The fingerprints handed to was_data_changed: those of the two input
\* files, over MaxFps different contents of the transaction file.
FpPool ==
    {FingerprintInputs([FpInitFiles EXCEPT ![TX_PATH] = FpContent(i)],
                       <<TX_PATH, MKT_PATH>>).value : i \in 1..MaxFps}

Pending == [status |-> "pending", attempts |-> 0, value |-> NoFrame]

\* The locals of a flow run, named as in advanced_data_pipeline, the stages
\* the run has executed, and ChangeState and the output file as the run
\* found them.
NewRun(state_key, require_change, st, out) ==
    [pc |-> "qc_tx", state_key |-> state_key, require_change |-> require_change,
     tx_fut |-> Pending, mkt_fut |-> Pending, budget |-> Pending,
     ok_tx |-> FALSE, msg_tx |-> "none", ok_mk |-> FALSE, msg_mk |-> "none",
     fingerprint |-> EmptyText, detected |-> FALSE, prev |-> EmptyText, changed |-> FALSE,
     tx_hash |-> EmptyText, mkt_hash |-> EmptyText,
     valued |-> FALSE, valuation |-> <<>>, persist_attempts |-> 0, saved |-> "none",
     outcome |-> "none", result |-> "none",
     stages |-> {}, artifacts |-> {},
     start_state |-> st, start_output |-> out]

IdleRun ==
    [NewRun("tx+mkt", TRUE, [k \in StateKeys |-> EmptyText], NoOutput) EXCEPT !.pc = "idle"]

\* A caller of was_data_changed about to read the state file.
AtRead == [pc |-> "read", prev |-> EmptyText, changed |-> FALSE]
NoCallers ==
    [fingerprint |-> EmptyText, state_key |-> "tx+mkt",
     procs |-> [i \in 1..MaxCallers |-> [AtRead EXCEPT !.pc = "done"]]]

\* No direct call of compute_portfolio_valuation.
NoVal ==
    [tx |-> NoFrame, market |-> NoFrame, market_date_parsed |-> FALSE, called |-> FALSE,
     result |-> Raised("none"), symbol |-> <<>>, shares |-> <<>>, close |-> <<>>,
     position_value |-> <<>>]

\* No Transaction, Account or InvestmentPortfolio constructed.
NoTxn == [made |-> FALSE]
NoAccount == [made |-> FALSE]
NoPortfolio == [made |-> FALSE]

\* No invocation of the valuation task yet.
NoTaskCalls == [count |-> 0, log |-> <<>>]

InitCommon ==
    /\ callers = NoCallers
    /\ val = NoVal
    /\ taskCalls = NoTaskCalls /\ txn = NoTxn /\ account = NoAccount /\ portfolio = NoPortfolio
    /\ state = [k \in StateKeys |-> EmptyText]
    /\ cache = {}
    /\ output = NoOutput
    /\ backups = 0
    /\ now = 0
    /\ run = IdleRun
    /\ nruns = 0
    /\ nwrites = 0
    /\ fpCalls = <<>>
    /\ wdcCalls = <<>>

FpInit == files = FpInitFiles /\ InitCommon

\* An outside writer replaces or removes an input file.
FpWriteFile(p, c) ==
    /\ nwrites < MaxFpWrites
    /\ files[p] # c
    /\ files' = [files EXCEPT ![p] = c]
    /\ nwrites' = nwrites + 1
    /\ UNCHANGED <<state, cache, output, backups, now, run, nruns, fpCalls, wdcCalls, callers, val, taskCalls, txn, account, portfolio>>

CallFingerprintInputs(paths) ==
    /\ fpCalls' = Push(fpCalls, [paths |-> paths, files |-> files,
                                 result |-> FingerprintInputs(files, paths)])
    /\ UNCHANGED <<files, state, cache, output, backups, now, run, nruns, nwrites, wdcCalls,
                   callers, val, taskCalls, txn, account, portfolio>>

FpNext ==
    \/ \E p \in Paths, c \in FpContents \cup {NoFile} : FpWriteFile(p, c)
    \/ \E paths \in PathTuples : CallFingerprintInputs(paths)

FpSpec == FpInit /\ [][FpNext]_vars

CallWasDataChanged(fingerprint, state_key) ==
    LET r == WasDataChanged(state, fingerprint, state_key) IN
    /\ state' = r.state
    /\ wdcCalls' = Push(wdcCalls, [fingerprint |-> fingerprint, state_key |-> state_key,
                                   before |-> state, after |-> r.state,
                                   changed |-> r.changed])
    /\ UNCHANGED <<files, cache, output, backups, now, run, nruns, nwrites, fpCalls, callers, val, taskCalls, txn, account, portfolio>>

WdcNext == \E fp \in FpPool, k \in StateKeys : CallWasDataChanged(fp, k)

WdcSpec == FpInit /\ [][WdcNext]_vars

(***************************************************************************)
(* Claims about the fingerprinter.                                         *)
(***************************************************************************)
Count(s, p) == Cardinality({i \in 1..Len(s) : s[i] = p})
IsPermutation(s, t) == Len(s) = Len(t) /\ \A p \in Paths : Count(s, p) = Count(t, p)
\* The contents a call read, in the order the paths were supplied / sorted.
ContentsOf(e) == [i \in 1..Len(e.paths) |-> e.files[e.paths[i]]]
SortedContentsOf(e) == [i \in 1..Len(e.paths) |-> e.files[Sorted(e.paths)[i]]]
SameCollection(s, t) ==
    /\ Len(s) = Len(t)
    /\ \A i \in 1..Len(s) : Count(s, s[i]) = Count(t, s[i])

\* C1: on a key with no stored fingerprint was_data_changed(fp, k) returns
\* true and stores fp; the call right after it with the same fp and key
\* returns false; a call finding a different stored fingerprint returns true.
C1_ChangeDetection ==
    /\ \A i \in 1..Len(wdcCalls) :
         LET e == wdcCalls[i] IN
         /\ e.before[e.state_key] = EmptyText =>
                e.changed /\ e.after[e.state_key] = e.fingerprint
         /\ e.before[e.state_key] # e.fingerprint => e.changed
    /\ Len(wdcCalls) = 2 /\ wdcCalls[1].fingerprint = wdcCalls[2].fingerprint
         /\ wdcCalls[1].state_key = wdcCalls[2].state_key
       => ~wdcCalls[2].changed
    /\ wdcCalls # <<>> => state = wdcCalls[Len(wdcCalls)].after

C1_Witness ==
    /\ Len(wdcCalls) = 2
    /\ wdcCalls[1].before[wdcCalls[1].state_key] = EmptyText
    /\ wdcCalls[1].changed
    /\ wdcCalls[2].fingerprint = wdcCalls[1].fingerprint
    /\ wdcCalls[2].state_key = wdcCalls[1].state_key
    /\ ~wdcCalls[2].changed

\* C6: fingerprint_inputs gives the same result for the same paths with the
\* same file contents, whatever the order the paths are supplied in.
C6_OrderIndependent ==
    Len(fpCalls) = 2 /\ IsPermutation(fpCalls[1].paths, fpCalls[2].paths)
        /\ (\A i \in 1..Len(fpCalls[1].paths) :
              fpCalls[1].files[fpCalls[1].paths[i]] = fpCalls[2].files[fpCalls[1].paths[i]])
    => fpCalls[1].result = fpCalls[2].result

C6_Witness ==
    /\ Len(fpCalls) = 2
    /\ fpCalls[1].paths = <<TX_PATH, MKT_PATH>>
    /\ fpCalls[2].paths = <<MKT_PATH, TX_PATH>>
    /\ fpCalls[1].files = fpCalls[2].files
    /\ fpCalls[1].files[TX_PATH] # fpCalls[1].files[MKT_PATH]
    /\ fpCalls[1].result.ok
    /\ fpCalls[1].result = fpCalls[2].result

\* C7 as stated: two calls whose files hold the same collection of contents
\* return the same fingerprint, whichever path holds which content.
C7_ContentCollectionOnly ==
    Len(fpCalls) = 2 /\ fpCalls[1].result.ok /\ fpCalls[2].result.ok
        /\ SameCollection(ContentsOf(fpCalls[1]), ContentsOf(fpCalls[2]))
    => fpCalls[1].result.value = fpCalls[2].result.value

\* C7 amended: the fingerprint is the digest of the per-file digests taken
\* in sorted order of the paths, so two calls whose files, taken in sorted
\* path order, hold the same sequence of contents return the same
\* fingerprint, whatever the paths are called.
C7_SortedPathOrder ==
    /\ \A i \in 1..Len(fpCalls) :
         fpCalls[i].result.ok =>
           fpCalls[i].result.value =
             Sha256([j \in 1..Len(fpCalls[i].paths) |-> Sha256(SortedContentsOf(fpCalls[i])[j])])
    /\ Len(fpCalls) = 2 /\ fpCalls[1].result.ok /\ fpCalls[2].result.ok
         /\ SortedContentsOf(fpCalls[1]) = SortedContentsOf(fpCalls[2])
       => fpCalls[1].result.value = fpCalls[2].result.value

C7_Witness ==
    /\ Len(fpCalls) = 2
    /\ fpCalls[1].result.ok /\ fpCalls[2].result.ok
    /\ fpCalls[1].paths = <<TX_PATH, MKT_PATH>>
    /\ fpCalls[2].paths = <<TX_PATH, BUDGET_PATH>>
    /\ SortedContentsOf(fpCalls[1]) = SortedContentsOf(fpCalls[2])
    /\ SortedContentsOf(fpCalls[1])[1] # SortedContentsOf(fpCalls[1])[2]
    /\ fpCalls[1].result.value = fpCalls[2].result.value

\* C8: with a collision-free digest, for a fixed tuple of paths, changing
\* the content of any one of the files changes the fingerprint.
C8_Sensitive ==
    Len(fpCalls) = 2 /\ fpCalls[1].result.ok /\ fpCalls[2].result.ok
        /\ fpCalls[1].paths = fpCalls[2].paths
        /\ (\E i \in 1..Len(fpCalls[1].paths) :
              fpCalls[1].files[fpCalls[1].paths[i]] # fpCalls[2].files[fpCalls[1].paths[i]])
    => fpCalls[1].result.value # fpCalls[2].result.value

C8_Witness ==
    /\ Len(fpCalls) = 2
    /\ fpCalls[1].result.ok /\ fpCalls[2].result.ok
    /\ fpCalls[1].paths = <<TX_PATH, MKT_PATH>>
    /\ fpCalls[2].paths = <<TX_PATH, MKT_PATH>>
    /\ fpCalls[1].files[TX_PATH] = fpCalls[2].files[TX_PATH]
    /\ fpCalls[1].files[MKT_PATH] # fpCalls[2].files[MKT_PATH]
    /\ fpCalls[1].result.value # fpCalls[2].result.value

\* C10: when the fingerprint stored for state_key equals the supplied one,
\* was_data_changed returns false and leaves every key's stored fingerprint
\* unchanged; it writes state only when it returns true.
C10_NoWriteWhenSame ==
    /\ \A i \in 1..Len(wdcCalls) :
         LET e == wdcCalls[i] IN
         /\ e.before[e.state_key] = e.fingerprint => ~e.changed /\ e.after = e.before
         /\ e.after # e.before => e.changed
    /\ wdcCalls # <<>> => state = wdcCalls[Len(wdcCalls)].after

C10_Witness ==
    /\ wdcCalls # <<>>
    /\ LET e == wdcCalls[Len(wdcCalls)] IN
       /\ e.before[e.state_key] = e.fingerprint
       /\ \E k \in StateKeys : k # e.state_key /\ e.before[k] # EmptyText
                                /\ e.before[k] # e.fingerprint
       /\ ~e.changed
       /\ state = e.before

(***************************************************************************)
(* The flow advanced_data_pipeline and the files it runs on.               *)
(***************************************************************************)
\* n transaction rows of sh shares of AAPL, on date 1 then on date 2.
TxRuns(n, sh) ==
    <<Run(n \div 2, Row(1, "AAPL", sh, 10, NA)), Run(n - n \div 2, Row(2, "AAPL", sh, 10, NA))>>
\* n market rows: AAPL on dates 1 and 2, then MSFT on date 1.
MktRuns(n, close) ==
    <<Run(n \div 5, Row(1, "AAPL", NA, NA, close)),
      Run(n \div 5, Row(2, "AAPL", NA, NA, close + 1)),
      Run(n - 2 * (n \div 5), Row(1, "MSFT", NA, NA, 2 * close))>>
TxA == File(TxColumns, TxRuns(MIN_ROWS, 1))
TxB == File(TxColumns, TxRuns(MIN_ROWS, 2))
TxSmall == File(TxColumns, TxRuns(MIN_ROWS - 1, 1))
TxBad == File(TxColumns, TxRuns(MIN_ROWS, 1) \o <<Run(1, Row(BadDate, "AAPL", 1, 10, NA))>>)
MktA == File(MktColumns, MktRuns(MIN_ROWS, 150))
\* more than a fifth of the cells missing: symbol and close of 2 rows in 5
MktSparse ==
    File(MktColumns,
         <<Run(2 * (MIN_ROWS \div 5), Row(1, NaSym, NA, NA, NA)),
           Run(MIN_ROWS - 2 * (MIN_ROWS \div 5), Row(1, "AAPL", NA, NA, 150))>>)
BudgetJson == File({"monthly_budgets"}, <<>>)

ContentsFor(p) ==
    IF p = TX_PATH THEN {TxA, TxB, TxSmall, TxBad, NoFile}
    ELSE IF p = MKT_PATH THEN {MktA, MktSparse, NoFile}
    ELSE {BudgetJson, NoFile}

Init ==
    /\ files = [p \in Paths |->
                  IF p = TX_PATH THEN TxA ELSE IF p = MKT_PATH THEN MktA ELSE BudgetJson]
    /\ InitCommon

Running == run.pc \notin {"idle", "done"}

Raise(r, e) == [r EXCEPT !.pc = "done", !.outcome = "raised", !.result = e]
Return(r, v) == [r EXCEPT !.pc = "done", !.outcome = "returned", !.result = v]

\* An outside writer replaces or removes an input file.
WriteFile(p, c) ==
    /\ nwrites < MaxWrites
    /\ files[p] # c
    /\ files' = [files EXCEPT ![p] = c]
    /\ nwrites' = nwrites + 1
    /\ UNCHANGED <<state, cache, output, backups, now, run, nruns, fpCalls, wdcCalls, callers, val, taskCalls, txn, account, portfolio>>

\* Time passes between runs, a cache lifetime at a time.
Tick ==
    /\ ~Running
    /\ now + CACHE_TTL_HOURS <= MaxTime
    /\ now' = now + CACHE_TTL_HOURS
    /\ UNCHANGED <<files, state, cache, output, backups, run, nruns, nwrites, fpCalls, wdcCalls, callers, val, taskCalls, txn, account, portfolio>>

\* The flow is started: the three loads are submitted.
StartRun(state_key, require_change) ==
    /\ ~Running
    /\ nruns < MaxRuns
    /\ nruns' = nruns + 1
    /\ run' = NewRun(state_key, require_change, state, output)
    /\ UNCHANGED <<files, state, cache, output, backups, now, nwrites, fpCalls, wdcCalls, callers, val, taskCalls, txn, account, portfolio>>

LoadAttemptExtraRetry(fut, path) ==
    IF files[path].exists
    THEN [status |-> "completed", attempts |-> fut.attempts + 1, value |-> ReadCsv(files[path])]
    ELSE [status |-> IF fut.attempts > LOAD_RETRIES THEN "failed" ELSE "pending",
          attempts |-> fut.attempts + 1, value |-> NoFrame]

\* One attempt of a load task: the frame when the path exists, else
\* FileNotFoundError, retried LOAD_RETRIES times before the future fails.
LoadAttempt(fut, path) ==
    IF files[path].exists
    THEN [status |-> "completed", attempts |-> fut.attempts + 1, value |-> ReadCsv(files[path])]
    ELSE [status |-> IF fut.attempts + 1 > LOAD_RETRIES THEN "failed" ELSE "pending",
          attempts |-> fut.attempts + 1, value |-> NoFrame]

LoadTx ==
    /\ run.pc # "idle" /\ run.tx_fut.status = "pending"
    /\ run' = [run EXCEPT !.tx_fut = LoadAttempt(run.tx_fut, TX_PATH)]
    /\ UNCHANGED <<files, state, cache, output, backups, now, nruns, nwrites, fpCalls, wdcCalls, callers, val, taskCalls, txn, account, portfolio>>

LoadMkt ==
    /\ run.pc # "idle" /\ run.mkt_fut.status = "pending"
    /\ run' = [run EXCEPT !.mkt_fut = LoadAttempt(run.mkt_fut, MKT_PATH)]
    /\ UNCHANGED <<files, state, cache, output, backups, now, nruns, nwrites, fpCalls, wdcCalls, callers, val, taskCalls, txn, account, portfolio>>

\* load_json: the budget is loaded and never read by the flow.
LoadBudget ==
    /\ run.pc # "idle" /\ run.budget.status = "pending"
    /\ run' = [run EXCEPT !.budget =
                 [LoadAttempt(run.budget, BUDGET_PATH) EXCEPT !.value = NoFrame]]
    /\ UNCHANGED <<files, state, cache, output, backups, now, nruns, nwrites, fpCalls, wdcCalls, callers, val, taskCalls, txn, account, portfolio>>

\* ok_tx, msg_tx = data_quality_check(tx_fut): waits for the load.
QualityTx ==
    /\ run.pc = "qc_tx" /\ run.tx_fut.status # "pending"
    /\ run' = IF run.tx_fut.status = "failed"
              THEN Raise(run, "FileNotFoundError")
              ELSE LET q == DataQualityCheck(run.tx_fut.value, MIN_ROWS)
                   IN [run EXCEPT !.ok_tx = q.ok, !.msg_tx = q.msg, !.pc = "qc_mkt"]
    /\ UNCHANGED <<files, state, cache, output, backups, now, nruns, nwrites, fpCalls, wdcCalls, callers, val, taskCalls, txn, account, portfolio>>

QualityMkt ==
    /\ run.pc = "qc_mkt" /\ run.mkt_fut.status # "pending"
    /\ run' = IF run.mkt_fut.status = "failed"
              THEN Raise(run, "FileNotFoundError")
              ELSE LET q == DataQualityCheck(run.mkt_fut.value, MIN_ROWS)
                   IN [run EXCEPT !.ok_mk = q.ok, !.msg_mk = q.msg, !.pc = "gate"]
    /\ UNCHANGED <<files, state, cache, output, backups, now, nruns, nwrites, fpCalls, wdcCalls, callers, val, taskCalls, txn, account, portfolio>>

GateTxOnly ==
    /\ run.pc = "gate"
    /\ run' = IF ~run.ok_tx
              THEN Raise([run EXCEPT !.artifacts = @ \cup {"advanced-quality"}],
                         "ValueError: Data quality failed")
              ELSE [run EXCEPT !.pc = "fingerprint"]
    /\ UNCHANGED <<files, state, cache, output, backups, now, nruns, nwrites, fpCalls, wdcCalls, callers, val, taskCalls, txn, account, portfolio>>

\* if not ok_tx or not ok_mk: report in an artifact and raise.
Gate ==
    /\ run.pc = "gate"
    /\ run' = IF ~run.ok_tx \/ ~run.ok_mk
              THEN Raise([run EXCEPT !.artifacts = @ \cup {"advanced-quality"}],
                         "ValueError: Data quality failed")
              ELSE [run EXCEPT !.pc = "fingerprint"]
    /\ UNCHANGED <<files, state, cache, output, backups, now, nruns, nwrites, fpCalls, wdcCalls, callers, val, taskCalls, txn, account, portfolio>>

FingerprintStepWriting ==
    /\ run.pc = "fingerprint"
    /\ LET r == FingerprintInputs(files, <<TX_PATH, MKT_PATH>>) IN
       /\ run' = IF ~r.ok THEN Raise(run, r.error)
                 ELSE [run EXCEPT !.fingerprint = r.value,
                                  !.pc = IF run.require_change THEN "detect" ELSE "hash"]
       /\ state' = IF r.ok THEN [state EXCEPT ![run.state_key] = r.value] ELSE state
    /\ UNCHANGED <<files, cache, output, backups, now, nruns, nwrites, fpCalls, wdcCalls, callers, val, taskCalls, txn, account, portfolio>>

FingerprintStepAlwaysDetect ==
    /\ run.pc = "fingerprint"
    /\ LET r == FingerprintInputs(files, <<TX_PATH, MKT_PATH>>) IN
       run' = IF ~r.ok THEN Raise(run, r.error)
              ELSE [run EXCEPT !.fingerprint = r.value, !.pc = "detect"]
    /\ UNCHANGED <<files, state, cache, output, backups, now, nruns, nwrites, fpCalls, wdcCalls, callers, val, taskCalls, txn, account, portfolio>>

\* fingerprint = fingerprint_inputs((tx_path, market_path)).
FingerprintStep ==
    /\ run.pc = "fingerprint"
    /\ LET r == FingerprintInputs(files, <<TX_PATH, MKT_PATH>>) IN
       run' = IF ~r.ok THEN Raise(run, r.error)
              ELSE [run EXCEPT !.fingerprint = r.value,
                               !.pc = IF run.require_change THEN "detect" ELSE "hash"]
    /\ UNCHANGED <<files, state, cache, output, backups, now, nruns, nwrites, fpCalls, wdcCalls, callers, val, taskCalls, txn, account, portfolio>>

DetectNeverSkips ==
    /\ run.pc = "detect"
    /\ LET r == WasDataChanged(state, run.fingerprint, run.state_key) IN
       /\ state' = r.state
       /\ run' = [run EXCEPT !.detected = TRUE, !.prev = r.prev, !.changed = r.changed,
                             !.pc = "hash"]
    /\ UNCHANGED <<files, cache, output, backups, now, nruns, nwrites, fpCalls, wdcCalls, callers, val, taskCalls, txn, account, portfolio>>

\* changed = was_data_changed(fingerprint, state_key); a run that finds no
\* change returns "skipped (no change)".
Detect ==
    /\ run.pc = "detect"
    /\ LET r == WasDataChanged(state, run.fingerprint, run.state_key)
           d == [run EXCEPT !.detected = TRUE, !.prev = r.prev, !.changed = r.changed]
       IN
       /\ state' = r.state
       /\ run' = IF r.changed THEN [d EXCEPT !.pc = "hash"]
                 ELSE Return(d, "skipped (no change)")
    /\ UNCHANGED <<files, cache, output, backups, now, nruns, nwrites, fpCalls, wdcCalls, callers, val, taskCalls, txn, account, portfolio>>

\* tx_hash = _hash_file(tx_path); mkt_hash = _hash_file(market_path).
HashInputs ==
    /\ run.pc = "hash"
    /\ run' = IF ~files[TX_PATH].exists \/ ~files[MKT_PATH].exists
              THEN Raise(run, "FileNotFoundError")
              ELSE [run EXCEPT !.tx_hash = HashFile(files, TX_PATH),
                               !.mkt_hash = HashFile(files, MKT_PATH),
                               !.pc = "valuation"]
    /\ UNCHANGED <<files, state, cache, output, backups, now, nruns, nwrites, fpCalls, wdcCalls, callers, val, taskCalls, txn, account, portfolio>>

\* The cache entries of a key that have not expired.
CacheHits(key) == {e \in cache : e.key = key /\ now < e.expiration}

ValuationTaskNoCache(key, tx, market) ==
    LET r == ComputeValuation(tx, market)
    IN [result |-> r, computed |-> TRUE,
        expires |-> IF r.ok THEN now + CACHE_TTL_HOURS ELSE 0,
        cache |-> cache]

ValuationTaskNoExpiry(key, tx, market) ==
    LET hits == {e \in cache : e.key = key}
        r == ComputeValuation(tx, market)
    IN IF hits # {}
       THEN LET e == CHOOSE h \in hits : TRUE
            IN [result |-> Returned(e.result), computed |-> FALSE,
                expires |-> e.expiration, cache |-> cache]
       ELSE [result |-> r, computed |-> TRUE,
             expires |-> IF r.ok THEN now + CACHE_TTL_HOURS ELSE 0,
             cache |-> IF r.ok
                       THEN cache \cup {[key |-> key, result |-> r.value,
                                         expiration |-> now + CACHE_TTL_HOURS]}
                       ELSE cache]

\* The valuation task as the task runner invokes it: served from the cache
\* entry of the key (tx_hash, mkt_hash) when that has not expired, else the
\* body is run and a result it returns is cached for CACHE_TTL_HOURS; an
\* exception is not cached.  computed tells whether the body ran; expires
\* is the expiry of the entry used or made (0 when the body raised).
ValuationTask(key, tx, market) ==
    LET r == ComputeValuation(tx, market)
    IN IF CacheHits(key) # {}
       THEN LET e == CHOOSE h \in CacheHits(key) : TRUE
            IN [result |-> Returned(e.result), computed |-> FALSE,
                expires |-> e.expiration, cache |-> cache]
       ELSE [result |-> r, computed |-> TRUE,
             expires |-> IF r.ok THEN now + CACHE_TTL_HOURS ELSE 0,
             cache |-> IF r.ok
                       THEN {e \in cache : e.key # key}
                              \cup {[key |-> key, result |-> r.value,
                                     expiration |-> now + CACHE_TTL_HOURS]}
                       ELSE cache]

\* valuation = compute_portfolio_valuation(tx, market, tx_hash, mkt_hash)
Valuation ==
    /\ run.pc = "valuation"
    /\ LET t == ValuationTask(<<run.tx_hash, run.mkt_hash>>, run.tx_fut.value, run.mkt_fut.value)
           v == [run EXCEPT !.stages = @ \cup {"valuation"}
                                         \cup (IF t.computed THEN {"computed"} ELSE {})]
       IN /\ run' = IF t.result.ok
                    THEN [v EXCEPT !.valued = TRUE, !.valuation = t.result.value,
                                   !.pc = "persist"]
                    ELSE Raise(v, t.result.error)
          /\ cache' = t.cache
    /\ UNCHANGED <<files, state, output, backups, now, nruns, nwrites, fpCalls, wdcCalls, callers, val, taskCalls, txn, account, portfolio>>

PersistBeforeValuation ==
    /\ run.pc \in {"valuation", "persist"}
    /\ output' = [exists |-> TRUE, series |-> run.valuation]
    /\ run' = [run EXCEPT !.saved = PORTFOLIO_OUT, !.pc = IF run.pc = "persist" THEN "backup" ELSE @,
                          !.stages = @ \cup {"persist"},
                          !.artifacts = @ \cup {"portfolio-tail"}]
    /\ UNCHANGED <<files, state, cache, backups, now, nruns, nwrites, fpCalls, wdcCalls, callers, val, taskCalls, txn, account, portfolio>>

\* saved = persist_portfolio(valuation): the output file is overwritten and
\* the table artifact created.
Persist ==
    /\ run.pc = "persist"
    /\ output' = [exists |-> TRUE, series |-> run.valuation]
    /\ run' = [run EXCEPT !.saved = PORTFOLIO_OUT, !.pc = "backup",
                          !.stages = @ \cup {"persist"},
                          !.artifacts = @ \cup {"portfolio-tail"}]
    /\ UNCHANGED <<files, state, cache, backups, now, nruns, nwrites, fpCalls, wdcCalls, callers, val, taskCalls, txn, account, portfolio>>

\* An attempt of persist_portfolio that raises: before to_parquet has
\* written (wrote = FALSE) or after it, in create_table_artifact.  The task
\* is retried PERSIST_RETRIES times, then the flow fails.
PersistFail(wrote) ==
    /\ run.pc = "persist"
    /\ output' = IF wrote THEN [exists |-> TRUE, series |-> run.valuation] ELSE output
    /\ LET a == [run EXCEPT !.persist_attempts = @ + 1,
                            !.stages = IF wrote THEN @ \cup {"persist"} ELSE @]
       IN run' = IF a.persist_attempts > PERSIST_RETRIES THEN Raise(a, "OSError") ELSE a
    /\ UNCHANGED <<files, state, cache, backups, now, nruns, nwrites, fpCalls, wdcCalls, callers, val, taskCalls, txn, account, portfolio>>

\* backup_processed(): the processed files are copied and the flow returns.
Backup ==
    /\ run.pc = "backup"
    /\ backups' = backups + 1
    /\ run' = Return([run EXCEPT !.stages = @ \cup {"backup"},
                                 !.artifacts = @ \cup {"processed-backups"}],
                     "saved: data/processed/portfolio_metrics.parquet")
    /\ UNCHANGED <<files, state, cache, output, now, nruns, nwrites, fpCalls, wdcCalls, callers, val, taskCalls, txn, account, portfolio>>

\* backup_processed() raises (the backup directory cannot be written).
BackupFail ==
    /\ run.pc = "backup"
    /\ run' = Raise([run EXCEPT !.stages = @ \cup {"backup"}], "OSError")
    /\ UNCHANGED <<files, state, cache, output, backups, now, nruns, nwrites, fpCalls, wdcCalls, callers, val, taskCalls, txn, account, portfolio>>

Next ==
    \/ \E p \in {TX_PATH, MKT_PATH} : \E c \in ContentsFor(p) : WriteFile(p, c)
    \/ Tick
    \/ \E rc \in BOOLEAN : StartRun("tx+mkt", rc)
    \/ LoadTx
    \/ LoadMkt
    \/ LoadBudget
    \/ QualityTx
    \/ QualityMkt
    \/ Gate
    \/ FingerprintStep
    \/ Detect
    \/ HashInputs
    \/ Valuation
    \/ Persist
    \/ \E wrote \in BOOLEAN : PersistFail(wrote)
    \/ Backup
    \/ BackupFail

Spec == Init /\ [][Next]_vars

(***************************************************************************)
(* Claims about the flow.                                                  *)
(***************************************************************************)
HeavyStages == {"valuation", "computed", "persist", "backup"}

\* C2: a run with require_change whose fingerprint equals the one stored for
\* the state key never executes valuation, persistence or backup, and ends
\* with the result "skipped (no change)".
C2_SkippedWhenUnchanged ==
    run.require_change /\ run.detected /\ run.prev = run.fingerprint
    => /\ run.pc = "done"
       /\ run.outcome = "returned" /\ run.result = "skipped (no change)"
       /\ run.stages \cap HeavyStages = {}
       /\ ~run.valued
       /\ output = run.start_output

C2_Witness ==
    /\ run.require_change /\ run.detected /\ run.prev = run.fingerprint
    /\ run.start_state[run.state_key] = run.fingerprint
    /\ run.result = "skipped (no change)"
    /\ output.exists

\* C3: in every run ChangeState is read and written by change detection
\* before the valuation stage begins, and the output file is written only
\* after the valuation stage has completed.
C3_Ordering ==
    [][/\ state' # state =>
            /\ run.pc = "detect" /\ ~run.valued /\ "valuation" \notin run.stages
            /\ run'.detected /\ ~run'.valued /\ run'.pc \in {"hash", "done"}
       /\ run'.detected /\ ~run.detected => run.pc = "detect" /\ ~run.valued
       /\ run.pc = "valuation" /\ run.require_change => run.detected
       /\ output' # output =>
            /\ run.valued /\ "valuation" \in run.stages /\ run.pc = "persist"
            /\ output'.series = run.valuation]_vars

C3_Witness ==
    /\ run.pc = "done" /\ run.require_change /\ run.detected /\ run.changed
    /\ state # run.start_state
    /\ output # run.start_output
    /\ run.start_output.exists

\* C4: when the transaction or the market dataset fails the quality gate,
\* the run reports the failure and aborts before any compute or write: no
\* ChangeState write, no valuation, no output write and no backup.
C4_QualityGateAborts ==
    /\ run.pc = "gate" =>
         /\ run.ok_tx = DataQualityCheck(run.tx_fut.value, MIN_ROWS).ok
         /\ run.ok_mk = DataQualityCheck(run.mkt_fut.value, MIN_ROWS).ok
    /\ (run.pc # "idle" /\ (run.msg_tx \notin {"none", "ok"} \/ run.msg_mk \notin {"none", "ok"}))
       => /\ run.pc \in {"qc_mkt", "gate", "done"}
          /\ run.pc = "done" =>
               /\ run.outcome = "raised"
               /\ run.result \in {"ValueError: Data quality failed", "FileNotFoundError"}
               /\ run.msg_mk # "none" => run.result = "ValueError: Data quality failed"
               /\ run.result = "ValueError: Data quality failed" =>
                    "advanced-quality" \in run.artifacts
          /\ run.stages = {} /\ ~run.detected /\ ~run.valued
          /\ state = run.start_state
          /\ output = run.start_output
          /\ run.fingerprint = EmptyText

C4_Witness ==
    /\ run.pc = "done" /\ run.result = "ValueError: Data quality failed"
    /\ run.ok_tx /\ ~run.ok_mk
    /\ "advanced-quality" \in run.artifacts
    /\ output.exists /\ output = run.start_output
    /\ state = run.start_state

\* C5 as stated: in every run that ends in a fatal error, at whichever
\* stage, the output file is the same after the run as before it.
C5_OutputUntouchedOnError ==
    run.pc = "done" /\ run.outcome = "raised" => output = run.start_output

\* C9: fingerprint_inputs fails with a not-found error when a supplied path
\* does not exist and returns no fingerprint then; failing or not, it
\* modifies neither ChangeState nor the cache nor the output file.
C9_FingerprintPure ==
    [][run.pc = "fingerprint" /\ run'.pc # "fingerprint" =>
         /\ UNCHANGED <<state, cache, output, backups, files>>
         /\ (~files[TX_PATH].exists \/ ~files[MKT_PATH].exists) =>
              /\ run'.pc = "done" /\ run'.outcome = "raised"
              /\ run'.result = "FileNotFoundError"
              /\ run'.fingerprint = EmptyText
         /\ (files[TX_PATH].exists /\ files[MKT_PATH].exists) =>
              /\ run'.pc \in {"detect", "hash"}
              /\ run'.fingerprint # EmptyText]_vars

C9_Witness ==
    /\ run.pc = "done" /\ run.result = "FileNotFoundError"
    /\ run.ok_tx /\ run.ok_mk
    /\ run.fingerprint = EmptyText
    /\ output.exists /\ cache # {} /\ state # [k \in StateKeys |-> EmptyText]
    /\ output = run.start_output /\ state = run.start_state

(***************************************************************************)
(* Concurrent callers of was_data_changed on one state key with one        *)
(* fingerprint.  Each caller runs the statements of the function one at a  *)
(* time: the read and comparison, then, when changed, write_text, which    *)
(* truncates the state file and then stores the fingerprint.  A reader     *)
(* that comes between the two finds an empty file (a partly written one    *)
(* compares unequal in the same way).                                      *)
(***************************************************************************)
ConcInit ==
    /\ files = FpInitFiles
    /\ state \in [StateKeys -> {EmptyText} \cup FpPool]
    /\ cache = {} /\ output = NoOutput /\ backups = 0 /\ now = 0
    /\ run = IdleRun /\ nruns = 0 /\ nwrites = 0
    /\ fpCalls = <<>> /\ wdcCalls = <<>>
    /\ val = NoVal /\ taskCalls = NoTaskCalls /\ txn = NoTxn /\ account = NoAccount /\ portfolio = NoPortfolio
    /\ \E fp \in FpPool, k \in StateKeys :
         callers = [fingerprint |-> fp, state_key |-> k,
                    procs |-> [i \in 1..MaxCallers |-> AtRead]]

ConcFrame ==
    UNCHANGED <<files, cache, output, backups, now, run, nruns, nwrites, fpCalls, wdcCalls, val,
                taskCalls, txn, account, portfolio>>

\* prev = state_file.read_text().strip() if state_file.exists() else "";
\* changed = (prev != fingerprint)
ConcRead(i) ==
    /\ callers.procs[i].pc = "read"
    /\ LET r == WasDataChanged(state, callers.fingerprint, callers.state_key) IN
       callers' = [callers EXCEPT !.procs[i] =
                     [pc |-> IF r.changed THEN "truncate" ELSE "done",
                      prev |-> r.prev, changed |-> r.changed]]
    /\ UNCHANGED state
    /\ ConcFrame

\* state_file.write_text(fingerprint): the file is opened for writing, which
\* empties it.
ConcTruncate(i) ==
    /\ callers.procs[i].pc = "truncate"
    /\ state' = [state EXCEPT ![callers.state_key] = EmptyText]
    /\ callers' = [callers EXCEPT !.procs[i].pc = "store"]
    /\ ConcFrame

ConcStoreAppend(i) ==
    /\ callers.procs[i].pc = "store"
    /\ state' = [state EXCEPT ![callers.state_key] = @ \o callers.fingerprint]
    /\ callers' = [callers EXCEPT !.procs[i].pc = "done"]
    /\ ConcFrame

\* state_file.write_text(fingerprint): the fingerprint is written; the
\* caller returns changed.
ConcStore(i) ==
    /\ callers.procs[i].pc = "store"
    /\ state' = [state EXCEPT ![callers.state_key] = callers.fingerprint]
    /\ callers' = [callers EXCEPT !.procs[i].pc = "done"]
    /\ ConcFrame

ConcNext == \E i \in 1..MaxCallers : ConcRead(i) \/ ConcTruncate(i) \/ ConcStore(i)

ConcSpec == ConcInit /\ [][ConcNext]_vars

AllReturned == \A i \in 1..MaxCallers : callers.procs[i].pc = "done"

\* C11: when callers run was_data_changed concurrently with the same
\* fingerprint and state key, their reads and writes interleaved in any
\* order, the fingerprint stored for the key once all have returned is the
\* supplied one (and more than one of them may return true).
C11_ConcurrentSameFinal ==
    /\ AllReturned /\ callers.fingerprint # EmptyText =>
         /\ state[callers.state_key] = callers.fingerprint
         /\ \A i \in 1..MaxCallers :
              callers.procs[i].changed <=> callers.procs[i].prev # callers.fingerprint
    /\ \A i \in 1..MaxCallers :
         callers.procs[i].pc \in {"truncate", "store"} => callers.procs[i].changed

C11_Witness ==
    /\ AllReturned /\ callers.fingerprint # EmptyText
    /\ \A i \in 1..MaxCallers : callers.procs[i].changed
    /\ \E i \in 1..MaxCallers : callers.procs[i].prev = EmptyText
    /\ \E i \in 1..MaxCallers : callers.procs[i].prev # EmptyText
    /\ state[callers.state_key] = callers.fingerprint

(***************************************************************************)
(* Direct calls of compute_portfolio_valuation on small frames.            *)
(***************************************************************************)
\* A frame of single rows; a cell of a column the frame does not have is
\* not there at all.
Project(cols, r) ==
    [date |-> IF "date" \in cols THEN r.date ELSE NA,
     symbol |-> IF "symbol" \in cols THEN r.symbol ELSE NaSym,
     shares |-> IF "shares" \in cols THEN r.shares ELSE NA,
     amount |-> IF "amount" \in cols THEN r.amount ELSE NA,
     close |-> IF "close" \in cols THEN r.close ELSE NA]
Frame(cols, rows) ==
    [columns |-> cols, runs |-> [i \in 1..Len(rows) |-> Run(1, Project(cols, rows[i]))]]
SeqsUpTo(S, n) == UNION {[1..k -> S] : k \in 0..n}

\* Transaction rows: with and without a symbol, a shares value, a date.
ValTxRows ==
    {Row(1, "AAPL", 10, 20, NA), Row(2, "AAPL", 5, 20, NA), Row(1, NaSym, 5, 20, NA),
     Row(2, NaSym, NA, 20, NA), Row(1, "AAPL", NA, 20, NA), Row(NA, "AAPL", 5, 20, NA)}
\* date and amount always; symbol and shares are optional columns.
ValTxColumnSets == {TxColumns, TxColumns \ {"symbol"}, TxColumns \ {"symbol", "shares"}}
\* Market rows: several closes for one pair, a missing close, the CASH
\* symbol, a second date, a date that cannot be parsed.
ValMktRows ==
    {Row(1, "AAPL", NA, NA, 150), Row(1, "AAPL", NA, NA, NA), Row(1, "AAPL", NA, NA, 3),
     Row(1, "CASH", NA, NA, 3), Row(2, "AAPL", NA, NA, 7), Row(BadDate, "AAPL", NA, NA, 150)}
ValTxFrames == {Frame(c, rows) : c \in ValTxColumnSets, rows \in SeqsUpTo(ValTxRows, MaxTxRows)}
ValMktFrames == {Frame(MktColumns, rows) : rows \in SeqsUpTo(ValMktRows, MaxMktRows)}

ValInit ==
    /\ files = FpInitFiles
    /\ state = [k \in StateKeys |-> EmptyText]
    /\ cache = {} /\ output = NoOutput /\ backups = 0 /\ now = 0
    /\ run = IdleRun /\ nruns = 0 /\ nwrites = 0
    /\ fpCalls = <<>> /\ wdcCalls = <<>>
    /\ callers = NoCallers /\ taskCalls = NoTaskCalls /\ txn = NoTxn /\ account = NoAccount /\ portfolio = NoPortfolio
    /\ \E tx \in ValTxFrames, market \in ValMktFrames :
         val = [NoVal EXCEPT !.tx = tx, !.market = market]

\* compute_portfolio_valuation(tx, market, ..): the returned series or the
\* exception, the columns of the merged frame when the join is reached, and
\* whether the caller's market frame had its date column converted (line 69
\* assigns into the frame it was given).
CallComputeValuation ==
    /\ ~val.called
    /\ LET tx == val.tx
           market == val.market
           rows == Rows(tx)
           mrows == Rows(market)
           res == ComputeValuation(tx, market)
           n == IF res.ok THEN Len(rows) ELSE 0
       IN val' = [val EXCEPT
                    !.called = TRUE,
                    !.result = res,
                    !.market_date_parsed =
                        /\ "date" \in tx.columns /\ ~HasBadDate(tx)
                        /\ "date" \in market.columns /\ ~HasBadDate(market),
                    !.symbol = [i \in 1..n |-> SymbolOf(tx, rows[i])],
                    !.shares = [i \in 1..n |-> SharesOf(tx, rows[i])],
                    !.close = [i \in 1..n |-> LastClose(mrows, SymbolOf(tx, rows[i]), rows[i].date)],
                    !.position_value = [i \in 1..n |-> PositionValue(tx, mrows, rows[i])]]
    /\ UNCHANGED <<files, state, cache, output, backups, now, run, nruns, nwrites,
                   fpCalls, wdcCalls, callers, taskCalls, txn, account, portfolio>>

ValNext == CallComputeValuation

ValSpec == ValInit /\ [][ValNext]_vars

ValRows == Rows(val.tx)
ValMkt == Rows(val.market)
ValSeries == val.result.value
Valued == val.called /\ val.result.ok
\* The market rows of the (symbol, date) pair of transaction row i.
PairRows(i) ==
    {j \in 1..Len(ValMkt) :
       ValMkt[j].symbol = val.symbol[i] /\ ValMkt[j].date = ValRows[i].date}
\* The rows of the series for date d.
SeriesAt(d) == {k \in 1..Len(ValSeries) : ValSeries[k].date = d}
\* The shares value of transaction row i as supplied, 0 when it has none.
GivenShares(i) ==
    IF "shares" \in val.tx.columns /\ ValRows[i].shares # NA THEN ValRows[i].shares ELSE 0
NoSymbol(i) == "symbol" \notin val.tx.columns \/ ValRows[i].symbol = NaSym
NoShares(i) == "shares" \notin val.tx.columns \/ ValRows[i].shares = NA

\* Every transaction row has a date, a shares value and exactly one market
\* row of its pair, which has a close.
AllMatched ==
    /\ ValRows # <<>>
    /\ \A i \in 1..Len(ValRows) :
         /\ ValRows[i].date # NA /\ ~NoShares(i)
         /\ Cardinality(PairRows(i)) = 1
         /\ \A j \in PairRows(i) : ValMkt[j].close # NA
PairClose(i) == ValMkt[CHOOSE j \in PairRows(i) : TRUE].close

\* C12: for transaction rows that all have a matching market row, the
\* series holds for each date the sum, over the transaction rows of that
\* date, of shares times the close of the row's (symbol, date) pair.
C12_JoinSum ==
    Valued /\ AllMatched =>
        \A i \in 1..Len(ValRows) :
            LET d == ValRows[i].date IN
            \E k \in SeriesAt(d) :
                ValSeries[k].portfolio_value =
                    SumSeq([m \in 1..Len(ValRows) |->
                              IF ValRows[m].date = d
                              THEN ValRows[m].shares * PairClose(m) ELSE 0])

\* 10 shares of AAPL at close 150 give the single row (date, 1500).
C12_Witness ==
    /\ Valued /\ AllMatched
    /\ Len(ValRows) = 1 /\ ValRows[1].shares = 10
    /\ ValSeries = <<[date |-> 1, portfolio_value |-> 1500]>>

\* C13: the series has exactly one row per distinct date of the
\* transactions, no date twice and none that no transaction has, in
\* strictly ascending date order; the transactions of one date are summed
\* into that date's row.
C13_OneRowPerDate ==
    Valued =>
        LET dates == {ValRows[i].date : i \in 1..Len(ValRows)} \ {NA} IN
        /\ {ValSeries[k].date : k \in 1..Len(ValSeries)} = dates
        /\ Len(ValSeries) = Cardinality(dates)
        /\ \A k \in 1..Len(ValSeries) - 1 : ValSeries[k].date < ValSeries[k + 1].date
        /\ \A k \in 1..Len(ValSeries) :
             ValSeries[k].portfolio_value =
                 SumSeq([i \in 1..Len(ValRows) |->
                           IF ValRows[i].date = ValSeries[k].date
                           THEN val.position_value[i] ELSE 0])

C13_Witness ==
    /\ Valued
    /\ Len(ValRows) = 2 /\ ValRows[1].date = ValRows[2].date
    /\ val.position_value[1] > 0 /\ val.position_value[2] > 0
    /\ Len(ValSeries) = 1
    /\ ValSeries[1].portfolio_value = val.position_value[1] + val.position_value[2]

\* The symbol column is there and no row has a value in it.
NoSymbolAtAll ==
    /\ "symbol" \in val.tx.columns /\ ValRows # <<>>
    /\ \A i \in 1..Len(ValRows) : ValRows[i].symbol = NaSym

C15_RowDefaults ==
    Valued =>
        \A i \in 1..Len(ValRows) :
            /\ NoSymbol(i) => val.symbol[i] = "CASH"
            /\ NoShares(i) => val.shares[i] = 0
            /\ NoSymbol(i) /\ NoShares(i) => val.position_value[i] = 0

\* The close that the valuation uses for the pair of row i: that of the
\* last market row of the pair, in input order, that has a close.
LastRecorded(i) ==
    LET with == {j \in PairRows(i) : ValMkt[j].close # NA}
    IN IF with = {} THEN NA ELSE ValMkt[SetMax(with)].close

\* C16 as stated: the close used for a pair is that of the market row of
\* the pair that comes last in input order.
C16_LastRowClose ==
    Valued =>
        \A i \in 1..Len(ValRows) :
            PairRows(i) # {} => val.close[i] = ValMkt[SetMax(PairRows(i))].close

\* C16: with several market rows for one (symbol, date) pair, the close
\* used is that of the last row of the pair, in input order, whose close is
\* not missing; one price per pair; a pair with no close at all is valued at
\* the default 1.0.
C16_LastRecordedClose ==
    Valued =>
        /\ \A i \in 1..Len(ValRows) :
             /\ val.close[i] = LastRecorded(i)
             /\ val.position_value[i] =
                    GivenShares(i) * (IF LastRecorded(i) = NA THEN 1 ELSE LastRecorded(i))
        /\ \A i, m \in 1..Len(ValRows) :
             val.symbol[i] = val.symbol[m] /\ ValRows[i].date = ValRows[m].date
                 => val.close[i] = val.close[m]

C16_Witness ==
    /\ Valued
    /\ Len(ValRows) = 1 /\ Len(ValMkt) = 2 /\ PairRows(1) = {1, 2}
    /\ ValMkt[1].close = 3 /\ ValMkt[2].close = 150
    /\ val.close[1] = 150
    /\ ValSeries = <<[date |-> 1, portfolio_value |-> 1500]>>

\* C17 as stated: an empty transaction dataset gives an empty series and no
\* error, whatever the market dataset holds.
C17_EmptyAlways ==
    val.called /\ ValRows = <<>> => val.result.ok /\ ValSeries = <<>>

\* C17: an empty transaction dataset gives an empty series and no error,
\* provided every date of the market dataset can be parsed.
C17_EmptyGivesEmpty ==
    val.called /\ ValRows = <<>> /\ ~HasBadDate(val.market) =>
        val.result.ok /\ ValSeries = <<>>

C17_Witness ==
    /\ Valued /\ ValRows = <<>> /\ Len(ValMkt) = 2
    /\ ValSeries = <<>>

(***************************************************************************)
(* Invocations of the valuation task over time: the cache of the task      *)
(* runner, keyed by (tx_hash, mkt_hash), entries living CACHE_TTL_HOURS.   *)
(***************************************************************************)
TaskTx1 == File(TxColumns, <<Run(1, Row(1, "AAPL", 10, 20, NA))>>)
TaskTx2 == File(TxColumns, <<Run(1, Row(1, "AAPL", 5, 20, NA))>>)
TaskMkt == File(MktColumns, <<Run(1, Row(1, "AAPL", NA, NA, 150))>>)
TaskMktBad == File(MktColumns, <<Run(1, Row(BadDate, "AAPL", NA, NA, 150))>>)
\* The files an invocation is made for; the last makes the body raise.
TaskInputs == {<<TaskTx1, TaskMkt>>, <<TaskTx2, TaskMkt>>, <<TaskTx1, TaskMktBad>>}

TaskTick ==
    /\ now + TickHours <= MaxClock
    /\ now' = now + TickHours
    /\ UNCHANGED <<files, state, cache, output, backups, run, nruns, nwrites, fpCalls, wdcCalls,
                   callers, val, taskCalls, txn, account, portfolio>>

\* compute_portfolio_valuation(tx, market, tx_hash, mkt_hash) for the frames
\* and the hashes of two files.
CallValuationTask(txf, mktf) ==
    /\ taskCalls.count < MaxTaskCalls
    /\ LET key == <<Sha256(txf), Sha256(mktf)>>
           t == ValuationTask(key, ReadCsv(txf), ReadCsv(mktf))
       IN /\ cache' = t.cache
          /\ taskCalls' = [count |-> taskCalls.count + 1,
                           log |-> Append(taskCalls.log,
                                          [key |-> key, at |-> now, computed |-> t.computed,
                                           result |-> t.result, expires |-> t.expires])]
    /\ UNCHANGED <<files, state, output, backups, now, run, nruns, nwrites, fpCalls, wdcCalls,
                   callers, val, txn, account, portfolio>>

TaskNext == TaskTick \/ \E inp \in TaskInputs : CallValuationTask(inp[1], inp[2])

TaskSpec == FpInit /\ [][TaskNext]_vars

TaskLog == taskCalls.log
\* Invocations i < j with the same key and none with that key in between.
NextWithKey(i, j) ==
    /\ i < j /\ TaskLog[i].key = TaskLog[j].key
    /\ \A m \in (i + 1)..(j - 1) : TaskLog[m].key # TaskLog[i].key

\* C18: of two invocations of the valuation task with the same
\* (tx_hash, mkt_hash), the second within the TTL that the first one's
\* result has (12 hours from when it was computed), the second returns the
\* same result and does not compute the join: it is served from the cache.
C18_CacheReuse ==
    /\ \A i \in 1..Len(TaskLog) :
         TaskLog[i].computed /\ TaskLog[i].result.ok
             => TaskLog[i].expires = TaskLog[i].at + CACHE_TTL_HOURS
    /\ \A i, j \in 1..Len(TaskLog) :
         /\ i < j /\ TaskLog[i].key = TaskLog[j].key
         /\ TaskLog[i].result.ok /\ TaskLog[j].at < TaskLog[i].expires
         => /\ ~TaskLog[j].computed
            /\ TaskLog[j].result = TaskLog[i].result
            /\ TaskLog[j].expires = TaskLog[i].expires

C18_Witness ==
    /\ Len(TaskLog) = 2 /\ TaskLog[1].key = TaskLog[2].key
    /\ TaskLog[1].computed /\ TaskLog[1].result.ok /\ TaskLog[1].at = 0
    /\ TaskLog[2].at > 0 /\ TaskLog[2].at < CACHE_TTL_HOURS
    /\ ~TaskLog[2].computed /\ TaskLog[2].result = TaskLog[1].result

\* C19: an invocation made when the TTL of the cache entry of its key has
\* elapsed computes the join again, although the hashes are the same, and
\* starts a new TTL; no invocation is served from an entry that has expired.
C19_ExpiryRecomputes ==
    /\ \A i, j \in 1..Len(TaskLog) :
         NextWithKey(i, j) /\ TaskLog[i].result.ok /\ TaskLog[j].at >= TaskLog[i].expires
         => /\ TaskLog[j].computed
            /\ TaskLog[j].result = TaskLog[i].result
            /\ TaskLog[j].expires = TaskLog[j].at + CACHE_TTL_HOURS
    /\ \A j \in 1..Len(TaskLog) : ~TaskLog[j].computed => TaskLog[j].at < TaskLog[j].expires
    /\ \A e \in cache : e.expiration <= now + CACHE_TTL_HOURS

C19_Witness ==
    /\ Len(TaskLog) = 3
    /\ TaskLog[1].key = TaskLog[2].key /\ TaskLog[2].key = TaskLog[3].key
    /\ TaskLog[1].computed /\ TaskLog[1].result.ok
    /\ ~TaskLog[2].computed
    /\ TaskLog[3].at >= TaskLog[1].expires /\ TaskLog[3].computed
    /\ TaskLog[3].result = TaskLog[1].result

(***************************************************************************)
(* The loads of a run, from any presence of the two input files, up to the *)
(* quality gate.                                                           *)
(***************************************************************************)
LoadInit ==
    /\ \E tx \in {TxA, NoFile}, mkt \in {MktA, NoFile} :
         files = [p \in Paths |->
                    IF p = TX_PATH THEN tx ELSE IF p = MKT_PATH THEN mkt ELSE BudgetJson]
    /\ InitCommon

LoadNext ==
    \/ \E p \in {TX_PATH, MKT_PATH} : \E c \in ContentsFor(p) : WriteFile(p, c)
    \/ \E rc \in BOOLEAN : StartRun("tx+mkt", rc)
    \/ LoadTx
    \/ LoadMkt
    \/ LoadBudget
    \/ QualityTx
    \/ QualityMkt
    \/ Gate

LoadSpec == LoadInit /\ [][LoadNext]_vars

\* A load future within its attempts: at most LOAD_RETRIES re-attempts
\* after the first, failed only when all of them failed, completed only
\* with the frame of the file.
LoadBounded(fut) ==
    /\ fut.attempts <= LOAD_RETRIES + 1
    /\ fut.status = "pending" => fut.attempts <= LOAD_RETRIES
    /\ fut.status = "failed" => fut.attempts = LOAD_RETRIES + 1 /\ fut.value = NoFrame
    /\ fut.status = "completed" =>
           /\ fut.attempts >= 1
           /\ \E f \in ContentsFor(TX_PATH) \cup ContentsFor(MKT_PATH) :
                f.exists /\ fut.value = ReadCsv(f)

LoadsThenRun ==
    run.pc # "idle" =>
        /\ LoadBounded(run.tx_fut) /\ LoadBounded(run.mkt_fut)
        /\ run.tx_fut.status = "failed" \/ run.mkt_fut.status = "failed"
               => /\ run.pc \in {"qc_tx", "qc_mkt", "done"}
                  /\ run.pc = "done" => run.outcome = "raised"
        /\ run.pc = "qc_tx" /\ run.tx_fut.status = "failed" => ENABLED QualityTx
        /\ run.pc = "qc_mkt" /\ run.mkt_fut.status = "failed" => ENABLED QualityMkt
        /\ run.pc \in {"qc_mkt", "gate", "fingerprint"} => run.tx_fut.status = "completed"
        /\ run.pc \in {"gate", "fingerprint"} => run.mkt_fut.status = "completed"

\* Within a run a load future changes only by an attempt, which is counted,
\* and a future that has completed or failed changes no more.
LoadStep(fut, next) ==
    next # fut => fut.status = "pending" /\ next.attempts = fut.attempts + 1
LoadProgress ==
    nruns' = nruns =>
        /\ LoadStep(run.tx_fut, run'.tx_fut)
        /\ LoadStep(run.mkt_fut, run'.mkt_fut)
        /\ run.pc = "qc_tx" /\ run.tx_fut.status = "failed" /\ run'.pc # run.pc
               => run'.pc = "done" /\ run'.outcome = "raised"
        /\ run.pc = "qc_mkt" /\ run.mkt_fut.status = "failed" /\ run'.pc # run.pc
               => run'.pc = "done" /\ run'.outcome = "raised"

\* C20: a load of the transaction or market file that fails is attempted
\* again at most LOAD_RETRIES (two) times: every attempt is counted and the
\* count never passes three.  When every attempt has failed the run can
\* only end, with the error; when an attempt succeeds the run goes on with
\* the loaded frame.
C20_BoundedRetries == []LoadsThenRun /\ [][LoadProgress]_vars

\* The transaction file is loaded at a later attempt, after a failed one,
\* and the run has gone on past the quality gate.
C20_Witness ==
    /\ run.pc = "fingerprint"
    /\ run.tx_fut.status = "completed" /\ run.tx_fut.attempts > 1
    /\ run.tx_fut.value = ReadCsv(TxA)

\* C21: compute_portfolio_valuation leaves the frames passed to it as they
\* were: same columns, same values, same value types; in particular the
\* date column of the caller's market frame is not converted.
C21_InputsUnchanged ==
    val.called => ~val.market_date_parsed

(***************************************************************************)
(* Runs that all have require_change enabled, on the one state key.        *)
(***************************************************************************)
ChangeNext ==
    \/ \E p \in {TX_PATH, MKT_PATH} : \E c \in ContentsFor(p) : WriteFile(p, c)
    \/ Tick
    \/ StartRun("tx+mkt", TRUE)
    \/ LoadTx
    \/ LoadMkt
    \/ LoadBudget
    \/ QualityTx
    \/ QualityMkt
    \/ Gate
    \/ FingerprintStep
    \/ Detect
    \/ HashInputs
    \/ Valuation
    \/ Persist
    \/ \E wrote \in BOOLEAN : PersistFail(wrote)
    \/ Backup
    \/ BackupFail

ChangeSpec == Init /\ [][ChangeNext]_vars

\* C22: between runs with require_change, whenever the fingerprint stored
\* for the state key is that of the current input files (the next run would
\* be skipped), the output file holds the valuation of those files.
C22_SkippedImpliesFresh ==
    LET fp == FingerprintInputs(files, <<TX_PATH, MKT_PATH>>) IN
    ~Running /\ nruns > 0 /\ fp.ok /\ state["tx+mkt"] = fp.value
        => /\ output.exists
           /\ Returned(output.series)
                  = ComputeValuation(ReadCsv(files[TX_PATH]), ReadCsv(files[MKT_PATH]))

\* The file contents a digest was taken of, and the file a frame was read from.
HashedFile(h) == h[2]
FileOfFrame(df) == File(df.columns, df.runs)

\* C23: with an outside writer at work during a run, every result cached
\* under (tx_hash, mkt_hash) is the valuation of the file contents with
\* those hashes, and the frames a run has loaded are those of the contents
\* it hashes later.
C23_CacheMatchesHashes ==
    /\ \A e \in cache :
         Returned(e.result)
             = ComputeValuation(ReadCsv(HashedFile(e.key[1])), ReadCsv(HashedFile(e.key[2])))
    /\ run.pc \in {"valuation", "persist", "backup"} =>
         /\ run.tx_hash = Sha256(FileOfFrame(run.tx_fut.value))
         /\ run.mkt_hash = Sha256(FileOfFrame(run.mkt_fut.value))

\* A run without require_change does not touch ChangeState.
NoChangeStateAccess ==
    run.pc # "idle" /\ ~run.require_change => state = run.start_state /\ ~run.detected
\* Its loads and both quality checks have succeeded.
LoadedAndChecked ==
    /\ run.tx_fut.status = "completed" /\ run.mkt_fut.status = "completed"
    /\ run.pc \notin {"idle", "qc_tx", "qc_mkt", "gate"}
    /\ run.ok_tx /\ run.ok_mk

\* C24 as stated: a run without require_change neither reads nor writes
\* ChangeState, and reaches the valuation stage whenever its loads and
\* quality gates have succeeded.
C24_AlwaysReachesValuation ==
    /\ NoChangeStateAccess
    /\ ~run.require_change /\ LoadedAndChecked /\ run.pc = "done"
           => "valuation" \in run.stages

\* C24: a run without require_change neither reads nor writes ChangeState
\* (the stored fingerprints are those of its start), and after loads and
\* quality gates have succeeded it goes on to the valuation stage, whatever
\* fingerprint is stored, unless an input file has been removed meanwhile:
\* then fingerprinting or hashing raises FileNotFoundError.
C24_NoChangeStateWithoutRequireChange ==
    /\ []NoChangeStateAccess
    /\ [][/\ Running /\ ~run.require_change => state' = state
          /\ ~run.require_change /\ run.pc \in {"fingerprint", "hash"} /\ run'.pc # run.pc
                 => IF files[TX_PATH].exists /\ files[MKT_PATH].exists
                    THEN run'.pc = (IF run.pc = "fingerprint" THEN "hash" ELSE "valuation")
                    ELSE /\ run'.pc = "done" /\ run'.outcome = "raised"
                         /\ run'.result = "FileNotFoundError"
          /\ ~run.require_change /\ run.pc = "valuation" /\ run'.pc # run.pc
                 => "valuation" \in run'.stages]_vars

\* Valued although the stored fingerprint is that of the inputs.
C24_Witness ==
    /\ ~run.require_change /\ run.pc = "done" /\ run.outcome = "returned"
    /\ run.valued /\ "valuation" \in run.stages
    /\ run.start_state[run.state_key] = run.fingerprint
    /\ state = run.start_state

(***************************************************************************)
(* Transaction (src/transaction.py): to_dict and from_dict.                *)
(* A datetime is a day and the minute of that day; an amount is a number   *)
(* of thousandths, so that amounts finer than a cent exist.                *)
(***************************************************************************)
Datetime(d, m) == [day |-> d, minute |-> m]

\* _validate_required: a string that is not empty and not blank.
ValidateRequired(value) == value # "" /\ value # " "

\* Transaction.__init__: the validated fields, or the first error.
NewTransaction(transaction_id, date, amount, category, merchant, description, account_type) ==
    IF ~ValidateRequired(transaction_id) THEN Raised("ValueError")
    ELSE IF amount = 0 THEN Raised("ValueError")
    ELSE IF ~ValidateRequired(category) \/ ~ValidateRequired(merchant) THEN Raised("ValueError")
    ELSE IF ~ValidateRequired(account_type) THEN Raised("ValueError")
    ELSE Returned([transaction_id |-> transaction_id, date |-> date, amount |-> amount,
                   category |-> category, merchant |-> merchant,
                   description |-> description, account_type |-> account_type])

\* date.strftime('%Y-%m-%d'): the text of the day, without the time of day.
Strftime(date) == <<"%Y-%m-%d", date.day>>
\* datetime.strptime(text, '%Y-%m-%d'): midnight of the day.
Strptime(text) == Datetime(text[2], 0)
\* f"${amount:.2f}": the amount rounded to the nearest cent (the amounts
\* drawn are not half-way between two cents).
FormatAmount(amount) ==
    <<"$", IF amount >= 0 THEN (amount + 5) \div 10 ELSE -((5 - amount) \div 10)>>
\* float(text.replace("$", "").replace(",", "")): the cents as an amount.
ParseAmount(text) == text[2] * 10

\* Transaction.to_dict
ToDict(t) ==
    [transaction_id |-> t.transaction_id, date |-> Strftime(t.date),
     amount |-> FormatAmount(t.amount), category |-> t.category, merchant |-> t.merchant,
     description |-> t.description, account_type |-> t.account_type]

\* Transaction.from_dict
FromDict(data) ==
    NewTransaction(data.transaction_id, Strptime(data.date), ParseAmount(data.amount),
                   data.category, data.merchant, data.description, data.account_type)

\* No object of the classes of src/src has been constructed yet.
ClassesInit ==
    /\ InitCommon
    /\ files = FpInitFiles

\* Any Transaction that the constructor accepts: dates with and without a
\* time of day, the amounts 100.00, -1.50, 12.346, 0.999, 0.004 and the
\* rejected 0.
TxnConstruct ==
    /\ ~txn.made
    /\ \E date \in {Datetime(d, m) : d \in {1, 2}, m \in {0, 870}},
          amount \in {100000, -1500, 12346, 999, 4, 0},
          category \in {"Food", ""},
          description \in {"", "Test transaction"},
          account_type \in {"Bank Account", "Credit Card"} :
         LET r == NewTransaction("TXN001", date, amount, category, "Supermarket",
                                 description, account_type)
         IN /\ r.ok
            /\ txn' = [made |-> TRUE, done |-> FALSE, t |-> r.value]
    /\ UNCHANGED <<files, state, cache, output, backups, now, run, nruns, nwrites, fpCalls,
                   wdcCalls, callers, val, taskCalls, account, portfolio>>

\* Transaction.from_dict(t.to_dict())
TxnRoundTrip ==
    /\ txn.made /\ ~txn.done
    /\ txn' = [made |-> TRUE, done |-> TRUE, t |-> txn.t, dict |-> ToDict(txn.t),
               back |-> FromDict(ToDict(txn.t))]
    /\ UNCHANGED <<files, state, cache, output, backups, now, run, nruns, nwrites, fpCalls,
                   wdcCalls, callers, val, taskCalls, account, portfolio>>

TxnNext == TxnConstruct \/ TxnRoundTrip

TxnSpec == ClassesInit /\ [][TxnNext]_vars

\* C25: for every valid Transaction t, from_dict(t.to_dict()) is a
\* Transaction with the same transaction_id, date, amount, category,
\* merchant, description and account_type.
C25_RoundTrip ==
    txn.made /\ txn.done => txn.back.ok /\ txn.back.value = txn.t

\* ---------------------------------------------------------------------
\* Account, CheckingAccount, SavingsAccount (src/src/account.py)
\* ---------------------------------------------------------------------

\* Amounts and balances are Python floats.  A float keeps MantissaBits
\* significant bits; a sum or difference is rounded to the nearest float,
\* ties to the even significand.  Values are counted in units of the smallest
\* amount used.
Abs(x) == IF x < 0 THEN -x ELSE x

FloatRound(x) ==
    LET a == Abs(x)
        k == CHOOSE e \in 0..8 : a < 2^(MantissaBits + e) /\ (e = 0 \/ a >= 2^(MantissaBits + e - 1))
        step == 2^k
        q == a \div step
        r == a % step
        m == IF 2 * r > step \/ (2 * r = step /\ q % 2 = 1) THEN (q + 1) * step ELSE q * step
    IN IF x < 0 THEN -m ELSE m

FloatAdd(x, y) == FloatRound(x + y)
FloatSub(x, y) == FloatRound(x - y)

\* The arguments handed to add_transaction: Transaction objects, an object
\* that is no Transaction but has an amount attribute, and a string.
TransactionObject(transaction_id, amount) ==
    [isTransaction |-> TRUE, hasAmount |-> TRUE, transaction_id |-> transaction_id,
     amount |-> amount]
DuckObject == [isTransaction |-> FALSE, hasAmount |-> TRUE, transaction_id |-> "D001", amount |-> -1]
StringObject == [isTransaction |-> FALSE, hasAmount |-> FALSE, transaction_id |-> "", amount |-> 0]

AccountTransactions ==
    {TransactionObject("T001", 8), TransactionObject("T002", 1), TransactionObject("T003", -1),
     TransactionObject("T004", -8), TransactionObject("T001", 1)}
AccountArguments == AccountTransactions \cup {DuckObject, StringObject}
AccountIds == {"T001", "T002", "T004", "T999"}
OverdraftLimits == {0, 2}
WithdrawalLimits == {0, 1, 2}

\* sum(t.amount for t in transaction_list): a float sum from the left
RECURSIVE FloatSum(_)
FloatSum(transaction_list) ==
    IF transaction_list = <<>> THEN 0
    ELSE FloatAdd(FloatSum(SubSeq(transaction_list, 1, Len(transaction_list) - 1)),
                  transaction_list[Len(transaction_list)].amount)

\* Account.add_transaction: the fields after the call and the error raised ("" for none)
AccountAddTransaction(a, transaction) ==
    IF ~transaction.isTransaction
    THEN [account |-> a, error |-> "TypeError"]
    ELSE [account |-> [a EXCEPT !.transaction_list = Append(@, transaction),
                                !.balance = FloatAdd(@, transaction.amount)],
          error |-> ""]

\* Account.remove_transaction
AccountRemoveTransaction(a, transaction_id) ==
    LET matches == {i \in 1..Len(a.transaction_list) :
                       a.transaction_list[i].transaction_id = transaction_id}
    IN IF matches = {}
       THEN [account |-> a, error |-> "ValueError"]
       ELSE LET i == CHOOSE j \in matches : \A l \in matches : j <= l
                txn_i == a.transaction_list[i]
            IN [account |-> [a EXCEPT !.balance = FloatSub(@, txn_i.amount),
                                      !.transaction_list =
                                          SubSeq(@, 1, i - 1) \o SubSeq(@, i + 1, Len(@))],
                error |-> ""]

\* CheckingAccount.add_transaction
CheckingAddTransaction(a, transaction) ==
    IF ~transaction.hasAmount
    THEN [account |-> a, error |-> "AttributeError"]
    ELSE IF FloatAdd(a.balance, transaction.amount) < -a.overdraft_limit
    THEN [account |-> a, error |-> "ValueError"]
    ELSE AccountAddTransaction(a, transaction)

SavingsAddTransactionLimitPlusOne(a, transaction) ==
    IF ~transaction.hasAmount
    THEN [account |-> a, error |-> "AttributeError"]
    ELSE IF transaction.amount < 0 /\ a.withdrawals_this_month > a.withdrawal_limit
    THEN [account |-> a, error |-> "ValueError"]
    ELSE AccountAddTransaction(
             IF transaction.amount < 0
             THEN [a EXCEPT !.withdrawals_this_month = @ + 1]
             ELSE a,
             transaction)

\* SavingsAccount.add_transaction: the counter is raised before the base
\* class looks at the type of the argument.
SavingsAddTransaction(a, transaction) ==
    IF ~transaction.hasAmount
    THEN [account |-> a, error |-> "AttributeError"]
    ELSE IF transaction.amount < 0 /\ a.withdrawals_this_month >= a.withdrawal_limit
    THEN [account |-> a, error |-> "ValueError"]
    ELSE AccountAddTransaction(
             IF transaction.amount < 0
             THEN [a EXCEPT !.withdrawals_this_month = @ + 1]
             ELSE a,
             transaction)

\* Dispatch on the class of the account.
AddTransactionOf(a, transaction) ==
    IF a.kind = "CheckingAccount" THEN CheckingAddTransaction(a, transaction)
    ELSE IF a.kind = "SavingsAccount" THEN SavingsAddTransaction(a, transaction)
    ELSE AccountAddTransaction(a, transaction)

NoCall == [op |-> "", error |-> "", negative |-> FALSE]

\* The fields of a new account; overdraft_limit and withdrawal_limit are
\* read only by the class that has them.
NewAccount(kind, overdraft_limit, withdrawal_limit) ==
    [made |-> TRUE, kind |-> kind, balance |-> 0, transaction_list |-> <<>>,
     overdraft_limit |-> overdraft_limit, withdrawal_limit |-> withdrawal_limit,
     withdrawals_this_month |-> 0]

AccountVars == <<files, state, cache, output, backups, now, run, nruns, nwrites, fpCalls,
                 wdcCalls, callers, val, taskCalls, txn, portfolio>>

\* The account after a call: its fields and the fields the call found, the
\* call (negative: the argument had a negative amount), the withdrawals
\* accepted since the last reset_withdrawals, and the calls and resets made.
Called(fields, op, error, negative, accepted, resets) ==
    [made |-> TRUE, fields |-> fields, before |-> account.fields,
     last |-> [op |-> op, error |-> error, negative |-> negative],
     accepted |-> accepted, ops |-> account.ops + 1, resets |-> resets]

CreateAccount ==
    /\ ~account.made
    /\ account' = [made |-> TRUE, fields |-> NewAccount("Account", 0, 0),
                   before |-> NewAccount("Account", 0, 0), last |-> NoCall,
                   accepted |-> 0, ops |-> 0, resets |-> 0]
    /\ UNCHANGED AccountVars

CreateCheckingAccount ==
    /\ ~account.made
    /\ \E overdraft_limit \in OverdraftLimits :
         account' = [made |-> TRUE, fields |-> NewAccount("CheckingAccount", overdraft_limit, 0),
                     before |-> NewAccount("CheckingAccount", overdraft_limit, 0),
                     last |-> NoCall, accepted |-> 0, ops |-> 0, resets |-> 0]
    /\ UNCHANGED AccountVars

CreateSavingsAccount ==
    /\ ~account.made
    /\ \E withdrawal_limit \in WithdrawalLimits :
         account' = [made |-> TRUE, fields |-> NewAccount("SavingsAccount", 0, withdrawal_limit),
                     before |-> NewAccount("SavingsAccount", 0, withdrawal_limit),
                     last |-> NoCall, accepted |-> 0, ops |-> 0, resets |-> 0]
    /\ UNCHANGED AccountVars

AddTransaction ==
    /\ account.made /\ account.ops < MaxAccountOps
    /\ \E transaction \in AccountArguments :
         LET r == AddTransactionOf(account.fields, transaction)
             withdrawal == r.error = "" /\ transaction.amount < 0
         IN account' = Called(r.account, "add_transaction", r.error,
                              transaction.hasAmount /\ transaction.amount < 0,
                              IF withdrawal THEN account.accepted + 1 ELSE account.accepted,
                              account.resets)
    /\ UNCHANGED AccountVars

RemoveTransaction ==
    /\ account.made /\ account.ops < MaxAccountOps
    /\ \E transaction_id \in AccountIds :
         LET r == AccountRemoveTransaction(account.fields, transaction_id)
         IN account' = Called(r.account, "remove_transaction", r.error, FALSE,
                              account.accepted, account.resets)
    /\ UNCHANGED AccountVars

ResetWithdrawals ==
    /\ account.made /\ account.ops < MaxAccountOps
    /\ account.fields.kind = "SavingsAccount"
    /\ account' = Called([account.fields EXCEPT !.withdrawals_this_month = 0],
                         "reset_withdrawals", "", FALSE, 0, account.resets + 1)
    /\ UNCHANGED AccountVars

AccountNext ==
    \/ CreateAccount
    \/ CreateCheckingAccount
    \/ CreateSavingsAccount
    \/ AddTransaction
    \/ RemoveTransaction
    \/ ResetWithdrawals

AccountSpec == ClassesInit /\ [][AccountNext]_vars

\* C26: after any sequence of add_transaction and remove_transaction calls
\* on an Account, rejected ones included, balance equals the sum of the
\* amounts of the transactions in transaction_list, and a rejected call
\* leaves balance and transaction_list unchanged.
C26_BalanceIsSum ==
    account.made =>
        /\ account.fields.balance = FloatSum(account.fields.transaction_list)
        /\ account.last.error # "" =>
              /\ account.fields.balance = account.before.balance
              /\ account.fields.transaction_list = account.before.transaction_list

\* C27: a CheckingAccount's balance is never below -overdraft_limit after
\* any sequence of add_transaction and remove_transaction calls, and an
\* add_transaction that would take it below raises ValueError and leaves
\* balance and transaction_list unchanged.
C27_NeverBelowOverdraft ==
    account.made /\ account.fields.kind = "CheckingAccount" =>
        /\ account.fields.balance >= -account.fields.overdraft_limit
        /\ account.last.error = "ValueError" /\ account.last.op = "add_transaction" =>
              /\ account.fields.balance = account.before.balance
              /\ account.fields.transaction_list = account.before.transaction_list

FloatMul(x, y) == FloatRound(x * y)

\* InvestmentPortfolio.Holding.__init__ (the purchase date is not validated
\* and not read by the calls below)
NewHolding(symbol, shares, purchase_price, current_price) ==
    IF symbol = "" \/ shares < 0 \/ purchase_price < 0 \/ current_price < 0
    THEN Raised("ValueError")
    ELSE Returned([symbol |-> symbol, shares |-> shares, purchase_price |-> purchase_price,
                   current_price |-> current_price])

NoHoldings == [symbol \in {} |-> 0]

\* InvestmentPortfolio.__init__ with no holdings argument
NewPortfolio(cash_balance) ==
    IF cash_balance < 0
    THEN Raised("ValueError")
    ELSE Returned([made |-> TRUE, holdings |-> NoHoldings, cash_balance |-> cash_balance])

PortfolioAddHoldingNoCashCheck(p, symbol, shares, purchase_price, current_price) ==
    LET total_cost == FloatMul(shares, purchase_price)
        holding == NewHolding(symbol, shares, purchase_price, current_price)
    IN IF ~holding.ok
       THEN [portfolio |-> p, error |-> holding.error]
       ELSE [portfolio |->
                 [p EXCEPT !.holdings = [s \in DOMAIN p.holdings \cup {symbol} |->
                                            IF s = symbol THEN holding.value ELSE p.holdings[s]],
                           !.cash_balance = FloatSub(@, total_cost)],
             error |-> ""]

\* InvestmentPortfolio.add_holding: the fields after the call and the error
\* raised ("" for none)
PortfolioAddHolding(p, symbol, shares, purchase_price, current_price) ==
    LET total_cost == FloatMul(shares, purchase_price)
        holding == NewHolding(symbol, shares, purchase_price, current_price)
    IN IF total_cost > p.cash_balance
       THEN [portfolio |-> p, error |-> "ValueError"]
       ELSE IF ~holding.ok
       THEN [portfolio |-> p, error |-> holding.error]
       ELSE [portfolio |->
                 [p EXCEPT !.holdings = [s \in DOMAIN p.holdings \cup {symbol} |->
                                            IF s = symbol THEN holding.value ELSE p.holdings[s]],
                           !.cash_balance = FloatSub(@, total_cost)],
             error |-> ""]

\* InvestmentPortfolio.remove_holding
PortfolioRemoveHolding(p, symbol) ==
    IF symbol \in DOMAIN p.holdings
    THEN LET holding == p.holdings[symbol]
         IN [portfolio |->
                 [p EXCEPT !.holdings = [s \in DOMAIN p.holdings \ {symbol} |-> p.holdings[s]],
                           !.cash_balance =
                               FloatAdd(@, FloatMul(holding.shares, holding.current_price))],
             error |-> ""]
    ELSE [portfolio |-> p, error |-> "ValueError"]

\* InvestmentPortfolio.update_prices: price is the mapping as the sequence
\* of its items in insertion order; each item is applied before the next
\* one is looked at.
RECURSIVE PortfolioUpdatePrices(_, _)
PortfolioUpdatePrices(p, price) ==
    IF price = <<>>
    THEN [portfolio |-> p, error |-> ""]
    ELSE LET item == Head(price)
         IN IF item.symbol \notin DOMAIN p.holdings
            THEN [portfolio |-> p, error |-> "ValueError"]
            ELSE IF item.price < 0
            THEN [portfolio |-> p, error |-> "ValueError"]
            ELSE PortfolioUpdatePrices(
                     [p EXCEPT !.holdings[item.symbol].current_price = item.price],
                     Tail(price))

PortfolioCash == {-1, 0, 4}
HoldingSymbols == {"AAPL", "MSFT", ""}
HoldingShares == {-1, 1, 2}
PurchasePrices == {-2, 2, 3}
CurrentPrices == {-1, 1, 3}
PriceSymbols == {"AAPL", "MSFT", "ZZZ"}
UpdatedPrices == {-1, 5}
\* Price mappings of one or two items; the keys of a mapping are distinct.
PriceMappings ==
    LET items == {[symbol |-> s, price |-> v] : s \in PriceSymbols, v \in UpdatedPrices}
    IN {<<first>> : first \in items}
           \cup {<<both[1], both[2]>> :
                    both \in {pair \in items \X items : pair[1].symbol # pair[2].symbol}}

PortfolioVars == <<files, state, cache, output, backups, now, run, nruns, nwrites, fpCalls,
                   wdcCalls, callers, val, taskCalls, txn, account>>

\* The portfolio after a call: its fields and the fields the call found,
\* the call and its error, and the calls made.
PortfolioCalled(fields, op, error) ==
    [made |-> TRUE, fields |-> fields, before |-> portfolio.fields,
     last |-> [op |-> op, error |-> error], ops |-> portfolio.ops + 1]

CreatePortfolio ==
    /\ ~portfolio.made
    /\ \E cash_balance \in PortfolioCash :
         LET r == NewPortfolio(cash_balance)
         IN /\ r.ok
            /\ portfolio' = [made |-> TRUE, fields |-> r.value, before |-> r.value,
                             last |-> [op |-> "", error |-> ""], ops |-> 0]
    /\ UNCHANGED PortfolioVars

AddHolding ==
    /\ portfolio.made /\ portfolio.ops < MaxPortfolioOps
    /\ \E symbol \in HoldingSymbols, shares \in HoldingShares,
          purchase_price \in PurchasePrices, current_price \in CurrentPrices :
         LET r == PortfolioAddHolding(portfolio.fields, symbol, shares, purchase_price,
                                      current_price)
         IN portfolio' = PortfolioCalled(r.portfolio, "add_holding", r.error)
    /\ UNCHANGED PortfolioVars

RemoveHolding ==
    /\ portfolio.made /\ portfolio.ops < MaxPortfolioOps
    /\ \E symbol \in PriceSymbols :
         LET r == PortfolioRemoveHolding(portfolio.fields, symbol)
         IN portfolio' = PortfolioCalled(r.portfolio, "remove_holding", r.error)
    /\ UNCHANGED PortfolioVars

UpdatePrices ==
    /\ portfolio.made /\ portfolio.ops < MaxPortfolioOps
    /\ \E price \in PriceMappings :
         LET r == PortfolioUpdatePrices(portfolio.fields, price)
         IN portfolio' = PortfolioCalled(r.portfolio, "update_prices", r.error)
    /\ UNCHANGED PortfolioVars

PortfolioNext ==
    \/ CreatePortfolio
    \/ AddHolding
    \/ RemoveHolding
    \/ UpdatePrices

PortfolioSpec == ClassesInit /\ [][PortfolioNext]_vars

\* C29: the cash_balance of an InvestmentPortfolio created with
\* cash_balance >= 0 is never negative after any sequence of add_holding,
\* remove_holding and update_prices calls, rejected ones included, and a
\* rejected add_holding (insufficient cash, or a negative shares or price
\* argument) leaves holdings and cash_balance unchanged.
C29_CashNeverNegative ==
    portfolio.made =>
        /\ portfolio.fields.cash_balance >= 0
        /\ portfolio.last.op = "add_holding" /\ portfolio.last.error # "" =>
              /\ portfolio.fields.holdings = portfolio.before.holdings
              /\ portfolio.fields.cash_balance = portfolio.before.cash_balance

\* A portfolio that spent part of its cash on a holding and then refused
\* another add_holding.
C29_Witness ==
    /\ portfolio.made
    /\ portfolio.last.op = "add_holding" /\ portfolio.last.error = "ValueError"
    /\ DOMAIN portfolio.fields.holdings = {"AAPL"}
    /\ portfolio.fields.cash_balance = 0
    /\ portfolio.fields.holdings["AAPL"].shares = 2

\* C30: when update_prices raises ValueError, the current_price of every
\* holding is what it was before the call.
C30_FailedUpdateAppliesNothing ==
    portfolio.made /\ portfolio.last.op = "update_prices" /\ portfolio.last.error = "ValueError"
        => \A s \in DOMAIN portfolio.fields.holdings :
              portfolio.fields.holdings[s].current_price
                  = portfolio.before.holdings[s].current_price

====
